---- MODULE Spec2Model ----
(***************************************************************************)
(* Model of src/app.py: the Flask deployment launcher.  Two request        *)
(* handlers are modelled, /deploy/stream (deploy_stream.generate, with the *)
(* background thread run_command_async) and /deploy (deploy), together     *)
(* with the helpers they call (execute_command, mask_secrets).             *)
(*                                                                         *)
(* Python strings are sequences of one-character strings; a line of        *)
(* process output is such a sequence ending in "\n".                       *)
(***************************************************************************)
EXTENDS Integers, Sequences, FiniteSets, TLC

(***************************************************************************)
(* Bounds of the model.                                                    *)
(***************************************************************************)
\* lines the main command prints; it closes its standard output after the last
MaxLines == 2
\* status polls that return a text different from the one reported last
MaxGroups == 2
\* the most lines the main command prints in the runs that start at the final status
MaxCaptured == 24
\* the longest command template and the longest credential of the dry-run requests
MaxTemplate == 3
MaxKey == 2

(***************************************************************************)
(* Python values.                                                          *)
(***************************************************************************)
\* None where a string is expected (no string: characters are one character long)
None == <<"None">>
\* returncode: None before the thread stores it, then the exit code
NoCode == <<>>
Code(n) == <<n>>

NL == "\n"
\* str.isspace for the characters of the model
Whitespace == {" ", "\t", NL}

\* str(x) of an exit code or of None, as the f-strings print it
StrCode(rc) == IF rc = NoCode THEN <<"None">> ELSE <<ToString(rc[1])>>

\* truthiness of a string or None (`if not api_key`)
Truthy(s) == s # None /\ s # <<>>

RECURSIVE rstrip(_)
\* str.rstrip()
rstrip(s) ==
    IF s # <<>> /\ s[Len(s)] \in Whitespace THEN rstrip(SubSeq(s, 1, Len(s) - 1)) ELSE s

RECURSIVE lstrip(_)
lstrip(s) == IF s # <<>> /\ s[1] \in Whitespace THEN lstrip(Tail(s)) ELSE s

\* str.strip()
strip(s) == lstrip(rstrip(s))

RECURSIVE split(_, _)
\* str.split(sep) for a one-character separator: k separators give k+1 pieces
split(s, sep) ==
    IF \A i \in 1..Len(s) : s[i] # sep
    THEN <<s>>
    ELSE LET i == CHOOSE j \in 1..Len(s) : s[j] = sep /\ \A k \in 1..(j - 1) : s[k] # sep
         IN  <<SubSeq(s, 1, i - 1)>> \o split(SubSeq(s, i + 1, Len(s)), sep)

RECURSIVE join(_)
\* ''.join(list)
join(parts) == IF parts = <<>> THEN <<>> ELSE Head(parts) \o join(Tail(parts))

\* seq[:n]
FirstN(seq, n) == SubSeq(seq, 1, IF Len(seq) < n THEN Len(seq) ELSE n)
\* seq[-n:]
LastN(seq, n) == SubSeq(seq, IF Len(seq) > n THEN Len(seq) - n + 1 ELSE 1, Len(seq))

RECURSIVE SelectNonBlank(_)
\* [line for line in lines if line.strip()]
SelectNonBlank(lines) ==
    IF lines = <<>> THEN <<>>
    ELSE (IF strip(Head(lines)) # <<>> THEN <<Head(lines)>> ELSE <<>>)
         \o SelectNonBlank(Tail(lines))

StartsWith(s, p) == Len(p) <= Len(s) /\ SubSeq(s, 1, Len(p)) = p

\* `sub in s`
Contains(s, sub) == \E i \in 1..(Len(s) - Len(sub) + 1) : SubSeq(s, i, i + Len(sub) - 1) = sub

RECURSIVE replace(_, _, _)
\* str.replace(old, new) for a non-empty old: leftmost non-overlapping occurrences
replace(s, old, new) ==
    IF s = <<>> THEN <<>>
    ELSE IF StartsWith(s, old)
         THEN new \o replace(SubSeq(s, Len(old) + 1, Len(s)), old, new)
         ELSE <<s[1]>> \o replace(Tail(s), old, new)

\* dict.get(key, default)
Get(d, k, default) == IF k \in DOMAIN d THEN d[k] ELSE default

(***************************************************************************)
(* deploy.mask_secrets: the credential and password fragments are replaced *)
(* by "***" before a command is echoed by a dry run.                       *)
(***************************************************************************)
Stars == <<"*", "*", "*">>
PasswordFlag == <<"-", "-", "p", "a", "s", "s", "w", "o", "r", "d">>
PasswordWord == <<"p", "a", "s", "s", "w", "o", "r", "d">>
Quotes == {"\"", "'"}
\* the characters excluded by [^"\'>\s]
ValueStop == Quotes \cup {">"} \cup Whitespace

RECURSIVE RunLen(_, _, _)
\* length of the longest run of characters of S that starts at position i
RunLen(s, i, S) == IF i <= Len(s) /\ s[i] \in S THEN 1 + RunLen(s, i + 1, S) ELSE 0

RECURSIVE RunLenNot(_, _, _)
\* length of the longest run of characters outside S that starts at position i
RunLenNot(s, i, S) == IF i <= Len(s) /\ s[i] \notin S THEN 1 + RunLenNot(s, i + 1, S) ELSE 0

\* a match of (--password[=\s]+)[^\s]+ at position i: <<end of group 1, end of match>>,
\* or <<>>.  [=\s]+ is greedy and gives characters back until [^\s]+ can match.
MatchPasswordFlag(s, i) ==
    IF ~ StartsWith(SubSeq(s, i, Len(s)), PasswordFlag) THEN <<>>
    ELSE LET j  == i + Len(PasswordFlag)
             r  == RunLen(s, j, {"="} \cup Whitespace)
             Ks == {k \in 1..r : j + k <= Len(s) /\ s[j + k] \notin Whitespace}
         IN  IF Ks = {} THEN <<>>
             ELSE LET k == CHOOSE x \in Ks : \A y \in Ks : y <= x
                  IN  <<j + k - 1, j + k - 1 + RunLenNot(s, j + k, Whitespace)>>

\* a match of (password[=:]["\']?)[^"\'>\s]+ at position i, or <<>>
MatchPasswordWord(s, i) ==
    IF ~ StartsWith(SubSeq(s, i, Len(s)), PasswordWord) THEN <<>>
    ELSE LET j == i + Len(PasswordWord)
         IN  IF ~ (j <= Len(s) /\ s[j] \in {"=", ":"}) THEN <<>>
             ELSE LET g == IF j + 1 <= Len(s) /\ s[j + 1] \in Quotes THEN j + 1 ELSE j
                      n == RunLenNot(s, g + 1, ValueStop)
                  IN  IF n = 0 THEN <<>> ELSE <<g, g + n>>

RECURSIVE SubPasswordFlag(_, _)
\* re.sub(r'(--password[=\s]+)[^\s]+', r'\1***', s), scanning from position i
SubPasswordFlag(s, i) ==
    IF i > Len(s) THEN <<>>
    ELSE LET m == MatchPasswordFlag(s, i)
         IN  IF m # <<>>
             THEN SubSeq(s, i, m[1]) \o Stars \o SubPasswordFlag(s, m[2] + 1)
             ELSE <<s[i]>> \o SubPasswordFlag(s, i + 1)

RECURSIVE SubPasswordWord(_, _)
\* re.sub(r'(password[=:]["\']?)[^"\'>\s]+', r'\1***', s), scanning from position i
SubPasswordWord(s, i) ==
    IF i > Len(s) THEN <<>>
    ELSE LET m == MatchPasswordWord(s, i)
         IN  IF m # <<>>
             THEN SubSeq(s, i, m[1]) \o Stars \o SubPasswordWord(s, m[2] + 1)
             ELSE <<s[i]>> \o SubPasswordWord(s, i + 1)

mask_secrets(cmd_str, api_key) ==
    SubPasswordWord(SubPasswordFlag(replace(cmd_str, api_key, Stars), 1), 1)

(***************************************************************************)
(* Configuration file, process environment and request bodies.             *)
(* A dict is a function on its keys; the configuration, whose key order    *)
(* matters (list(config.keys())[0]), is a sequence of name/value entries.  *)
(***************************************************************************)
EmptyDict == [k \in {} |-> <<>>]
\* request.get_json() of a body that is JSON null
NullBody == [k \in {"null"} |-> <<>>]

Helm == <<"h", "e", "l", "m">>
Compose == <<"c", "o", "m", "p", "o", "s", "e">>
Bogus == <<"x">>
ApiKey == <<"k", "e", "y">>
VersionVar == <<"$", "{", "V", "E", "R", "S", "I", "O", "N", "}">>

LogSourcePods == [command |-> <<"p", "o", "d", "s", " ">> \o VersionVar, label |-> <<"Pods">>]
LogSourceSvc == [command |-> <<"s", "v", "c">>, label |-> <<"Services">>]
\* a log source without a label: log_source.get('label', 'Status')
LogSourcePlain == [command |-> <<"s", "v", "c">>]

CfgFull ==
    [command |-> <<"i", "n", "s", "t", "a", "l", "l">>,
     pre_commands |-> << <<"f", "e", "t", "c", "h">>, <<"r", "e", "p", "o">> >>,
     log_sources |-> <<LogSourcePods, LogSourcePlain>>,
     default_version |-> <<"1">>,
     env_var |-> <<"N", "G", "C">>]
CfgBare == [command |-> <<"u", "p">>]
CfgLogs == [command |-> <<"u", "p">>, log_sources |-> <<LogSourceSvc>>]
CfgNoCommand == [pre_commands |-> << <<"f", "e", "t", "c", "h">> >>]

Entry(name, cfg) == [name |-> name, cfg |-> cfg]

CfgTwo == <<Entry(Compose, CfgBare), Entry(Helm, CfgFull)>>
EnvType(name) == [k \in {"DEPLOY_TYPE"} |-> name]
EnvDryRun == [k \in {"DRY_RUN"} |-> <<"T", "r", "u", "e">>]

\* the servers of the model: a configuration file and a process environment
Installations ==
    { << <<>>, EmptyDict >> } \cup
    { <<CfgTwo, e>> : e \in {EnvType(Helm), EnvType(Bogus), EnvDryRun} } \cup
    { << <<Entry(Helm, CfgNoCommand)>>, e >> : e \in {EmptyDict, EnvDryRun} }

\* the request bodies sent to /deploy/stream
StreamRequests ==
    { NullBody, EmptyDict, [apiKey |-> <<>>], [apiKey |-> ApiKey] }

\* the request bodies sent to /deploy
DeployRequests ==
    StreamRequests \cup
    { [apiKey |-> ApiKey, dryRun |-> TRUE],
      [apiKey |-> ApiKey, dryRun |-> FALSE, version |-> <<"2">>],
      [apiKey |-> <<>>, dryRun |-> TRUE] }

\* str.lower() on the letters the model uses in DRY_RUN
LowerChar(c) ==
    CASE c = "T" -> "t" [] c = "R" -> "r" [] c = "U" -> "u" [] c = "E" -> "e" [] OTHER -> c
lower(s) == [i \in 1..Len(s) |-> LowerChar(s[i])]

\* `name in config`
InConfig(cfgfile, name) == \E i \in 1..Len(cfgfile) : cfgfile[i].name = name
\* config[name]
Lookup(cfgfile, name) == cfgfile[CHOOSE i \in 1..Len(cfgfile) : cfgfile[i].name = name].cfg

\* deploy_type: DEPLOY_TYPE, or else the first deployment type of the configuration
DeployType(cfgfile, environment) ==
    LET fromEnv == Get(environment, "DEPLOY_TYPE", None)
    IN  IF Truthy(fromEnv) THEN fromEnv
        ELSE IF cfgfile # <<>> THEN cfgfile[1].name ELSE None

\* `not deploy_type or deploy_type not in config` is false
Resolves(cfgfile, environment) ==
    /\ Truthy(DeployType(cfgfile, environment))
    /\ InConfig(cfgfile, DeployType(cfgfile, environment))

\* env: the child environment with the credential and VERSION injected
ChildEnv(environment, deploy_config, data) ==
    LET version == Get(data, "version", <<>>)
    IN  [k \in DOMAIN environment \cup {"credential", "VERSION"} |->
            IF k = "VERSION"
            THEN (IF Truthy(version) THEN version
                  ELSE Get(deploy_config, "default_version", <<>>))
            ELSE IF k = "credential" THEN Get(data, "apiKey", None)
            ELSE environment[k]]

(***************************************************************************)
(* State.                                                                  *)
(***************************************************************************)
VARIABLES
    config,                \* content of CONFIG_FILE, as load_config returns it
    environ,               \* os.environ of the server
    request,               \* request.json of the request being handled
    pc,                    \* position of the request handler
    env,                   \* env: the child environment of the request
    stream,                \* the events generate() has yielded, oldest first
    response,              \* the response of /deploy: <<>> or <<[status, body]>>
    log_queue,             \* log_queue, oldest item first
    result_holder,         \* result_holder, shared with the thread
    tpc,                   \* position of the thread running run_command_async
    output_lines,          \* output_lines of the running execute_command / thread
    idx,                   \* index of the current pre-command or log source
    result,                \* result of the last execute_command
    outputs,               \* outputs of deploy()
    dry_run,               \* dry_run of deploy()
    last_pod_status,
    polls_without_change,
    elapsed,               \* time.time() - start_time, in seconds
    pod_status,            \* pod_status: the text of the latest successful poll
    repeated,              \* history: the latest poll of the running monitoring loop
                           \* returned the text of the successful poll before it
    spawned                \* history: the child processes started, in order

vars == <<config, environ, request, pc, env, stream, response, log_queue, result_holder, tpc,
          output_lines, idx, result, outputs, dry_run, last_pod_status, polls_without_change,
          elapsed, pod_status, repeated, spawned>>

\* the variables of the streaming handler's monitoring loop
monitorVars == <<last_pod_status, polls_without_change, elapsed, pod_status, repeated>>
\* the variables of the background thread
threadVars == <<result_holder, tpc>>

\* deploy_config = config[deploy_type]
deploy_config == Lookup(config, DeployType(config, environ))
pre_commands == Get(deploy_config, "pre_commands", <<>>)
command == Get(deploy_config, "command", None)
log_sources == Get(deploy_config, "log_sources", <<>>)

Event(type, message) == [type |-> type, message |-> message]
Spawn(site, cmd) == [site |-> site, command |-> cmd]

\* the state in which no request has arrived
Idle ==
    /\ pc = "idle"
    /\ request = NullBody
    /\ env = EmptyDict
    /\ stream = <<>>
    /\ response = <<>>
    /\ log_queue = <<>>
    /\ result_holder = [done |-> FALSE, returncode |-> NoCode, stdout |-> <<>>]
    /\ tpc = "none"
    /\ output_lines = <<>>
    /\ idx = 0
    /\ result = [returncode |-> NoCode, stdout |-> <<>>]
    /\ outputs = <<>>
    /\ dry_run = FALSE
    /\ last_pod_status = <<>>
    /\ polls_without_change = 0
    /\ elapsed = 0
    /\ pod_status = None
    /\ repeated = FALSE
    /\ spawned = <<>>

Init ==
    /\ \E inst \in Installations : config = inst[1] /\ environ = inst[2]
    /\ Idle

(***************************************************************************)
(* /deploy: the non-streaming handler.                                     *)
(***************************************************************************)
Respond(status, body) ==
    /\ response' = <<[status |-> status, body |-> body]>>
    /\ pc' = "done"

\* the results of subprocess.run in execute_command's capture mode
RunResults ==
    { [returncode |-> Code(0), stdout |-> <<"o", NL>>, stderr |-> <<>>],
      [returncode |-> Code(3), stdout |-> <<>>, stderr |-> <<"e", "r", "r">>] }

\* dry_run = data.get('dryRun', False) or os.environ.get('DRY_RUN', '').lower() == 'true'
DryRun(data, environment) ==
    \/ Get(data, "dryRun", FALSE)
    \/ lower(Get(environment, "DRY_RUN", <<>>)) = <<"t", "r", "u", "e">>

\* dry_run_info['would_execute']
WouldExecute(data) ==
    LET e == ChildEnv(environ, deploy_config, data)
    IN  [deployment_type |-> DeployType(config, environ),
         version |-> e["VERSION"],
         environment |-> [credential |-> <<"***hidden***">>, VERSION |-> e["VERSION"]],
         pre_commands |->
            [i \in 1..Len(pre_commands) |-> mask_secrets(pre_commands[i], data.apiKey)],
         main_command |-> mask_secrets(command, data.apiKey)]

DryRunMessage == <<"Dry run complete - no commands were executed">>

\* deploy() without the dry-run branch
deployIgnoringDryRun(data) ==
    /\ pc = "idle"
    /\ request' = data
    /\ UNCHANGED <<config, environ, stream, log_queue, threadVars, output_lines,
                   result, outputs, monitorVars, spawned>>
    /\ dry_run' = IF data = NullBody THEN dry_run ELSE DryRun(data, environ)
    /\ IF data = NullBody
       THEN /\ Respond(500, [error |-> <<"Deployment error: ">>])
            /\ UNCHANGED <<env, idx>>
       ELSE IF ~ Truthy(Get(data, "apiKey", None))
       THEN /\ Respond(400, [error |-> <<"API key is required">>])
            /\ UNCHANGED <<env, idx>>
       ELSE IF ~ Resolves(config, environ)
       THEN /\ Respond(500, [error |-> <<"No deployment configured">>])
            /\ UNCHANGED <<env, idx>>
       ELSE /\ env' = ChildEnv(environ, deploy_config, data)
            /\ pc' = "deploy"
            /\ idx' = 1
            /\ UNCHANGED response

\* deploy(), from the request to the dry-run answer or the first command
deploy(data) ==
    /\ pc = "idle"
    /\ request' = data
    /\ UNCHANGED <<config, environ, stream, log_queue, threadVars, output_lines,
                   result, outputs, monitorVars, spawned>>
    /\ dry_run' = IF data = NullBody THEN dry_run ELSE DryRun(data, environ)
    /\ IF data = NullBody
       THEN \* data.get raises AttributeError
            /\ Respond(500, [error |-> <<"Deployment error: ">>])
            /\ UNCHANGED <<env, idx>>
       ELSE IF ~ Truthy(Get(data, "apiKey", None))
       THEN /\ Respond(400, [error |-> <<"API key is required">>])
            /\ UNCHANGED <<env, idx>>
       ELSE IF ~ Resolves(config, environ)
       THEN /\ Respond(500, [error |-> <<"No deployment configured">>])
            /\ UNCHANGED <<env, idx>>
       ELSE /\ env' = ChildEnv(environ, deploy_config, data)
            /\ IF dry_run'
               THEN /\ IF command = None
                       THEN Respond(500, [error |-> <<"Deployment error: ">>])
                       ELSE Respond(200, [dry_run |-> TRUE,
                                          would_execute |-> WouldExecute(data),
                                          message |-> DryRunMessage])
                    /\ UNCHANGED idx
               ELSE /\ pc' = "deploy"
                    /\ idx' = 1
                    /\ UNCHANGED response

DeployRequest == \E data \in DeployRequests : deploy(data)

\* one pre-command of deploy(): execute_command(pre_cmd, working_dir, env, timeout=600)
DeployPreCommand ==
    /\ pc = "deploy"
    /\ idx <= Len(pre_commands)
    /\ spawned' = Append(spawned, Spawn("pre", pre_commands[idx]))
    /\ UNCHANGED <<config, environ, request, env, stream, log_queue, threadVars, output_lines,
                   dry_run, monitorVars>>
    /\ \/ \E r \in RunResults :
            /\ result' = r
            /\ outputs' = Append(outputs, <<"Pre-command output: ">> \o r.stdout)
            /\ IF r.returncode # Code(0)
               THEN /\ Respond(500, [error |-> <<"Pre-command failed: ">> \o r.stderr,
                                     output |-> outputs'])
                    /\ UNCHANGED idx
               ELSE /\ idx' = idx + 1
                    /\ UNCHANGED <<pc, response>>
       \/ \* subprocess.TimeoutExpired, or another exception of subprocess.run
          /\ \E msg \in {"Deployment timed out after 10 minutes", "Deployment error: "} :
                Respond(500, [error |-> <<msg>>])
          /\ UNCHANGED <<idx, result, outputs>>

\* the main command of deploy(): execute_command(command, working_dir, env, timeout=600)
DeployMainCommand ==
    /\ pc = "deploy"
    /\ idx > Len(pre_commands)
    /\ UNCHANGED <<config, environ, request, env, stream, log_queue, threadVars, output_lines,
                   idx, dry_run, monitorVars>>
    /\ IF command = None
       THEN \* subprocess.run(None, shell=True) raises TypeError
            /\ Respond(500, [error |-> <<"Deployment error: ">>])
            /\ UNCHANGED <<result, outputs, spawned>>
       ELSE /\ spawned' = Append(spawned, Spawn("main", command))
            /\ \/ \E r \in RunResults :
                    /\ result' = r
                    /\ outputs' = Append(outputs, r.stdout)
                    /\ IF r.returncode = Code(0)
                       THEN Respond(200, [message |-> DeployType(config, environ)
                                                      \o <<" deployment initiated successfully!">>,
                                          output |-> outputs'])
                       ELSE Respond(500, [error |-> <<"Deployment failed: ">> \o r.stderr,
                                          output |-> outputs'])
               \/ \* subprocess.TimeoutExpired, or another exception of subprocess.run
                  /\ \E msg \in {"Deployment timed out after 10 minutes",
                                  "Deployment error: "} :
                        Respond(500, [error |-> <<msg>>])
                  /\ UNCHANGED <<result, outputs>>

(***************************************************************************)
(* execute_command in streaming mode, as generate() runs each pre-command. *)
(***************************************************************************)
\* exit codes of the child processes of the model
ExitCodes == {0, 3}

\* the lines the i-th pre-command prints: the first one line, the others nothing
PreOutput(i) == IF i = 1 THEN << <<"p", " ", NL>> >> ELSE <<>>

\* the n-th line the main command prints: every second line is blank
MainLine(n) == IF n % 2 = 0 THEN <<" ", NL>> ELSE <<"m", ToString(n), NL>>

\* the outer `except Exception` of generate(): one error event ends the stream
StreamError ==
    /\ stream' = Append(stream, Event("error", <<"Error: ">>))
    /\ pc' = "done"

\* generate() without `if not api_key`
generateNoKeyCheck(data) ==
    /\ pc = "idle"
    /\ request' = data
    /\ UNCHANGED <<config, environ, response, log_queue, threadVars, output_lines,
                   result, outputs, dry_run, monitorVars, spawned>>
    /\ IF data = NullBody
       THEN StreamError /\ UNCHANGED <<env, idx>>
       ELSE IF ~ Resolves(config, environ)
       THEN /\ stream' = Append(stream, Event("error", <<"No deployment configured">>))
            /\ pc' = "done"
            /\ UNCHANGED <<env, idx>>
       ELSE /\ env' = ChildEnv(environ, deploy_config, data)
            /\ stream' = Append(stream,
                    Event("start", <<"Starting ">> \o DeployType(config, environ)
                                   \o <<" deployment...">>))
            /\ pc' = "pre"
            /\ idx' = 1

\* generate(), from the request to the start event
generate(data) ==
    /\ pc = "idle"
    /\ request' = data
    /\ UNCHANGED <<config, environ, response, log_queue, threadVars, output_lines,
                   result, outputs, dry_run, monitorVars, spawned>>
    /\ IF data = NullBody
       THEN StreamError /\ UNCHANGED <<env, idx>>
       ELSE IF ~ Truthy(Get(data, "apiKey", None))
       THEN /\ stream' = Append(stream, Event("error", <<"API key is required">>))
            /\ pc' = "done"
            /\ UNCHANGED <<env, idx>>
       ELSE IF ~ Resolves(config, environ)
       THEN /\ stream' = Append(stream, Event("error", <<"No deployment configured">>))
            /\ pc' = "done"
            /\ UNCHANGED <<env, idx>>
       ELSE /\ env' = ChildEnv(environ, deploy_config, data)
            /\ stream' = Append(stream,
                    Event("start", <<"Starting ">> \o DeployType(config, environ)
                                   \o <<" deployment...">>))
            /\ pc' = "pre"
            /\ idx' = 1

\* streaming requests are sent to servers that run without DRY_RUN, which generate()
\* does not read
StreamRequest ==
    /\ "DRY_RUN" \notin DOMAIN environ
    /\ \E data \in StreamRequests : generate(data)

\* for idx, pre_cmd: the two announcing events, then Popen of execute_command
PreCommandStart ==
    /\ pc = "pre"
    /\ idx <= Len(pre_commands)
    /\ stream' = stream \o
            << Event("section", <<"Pre-command ", ToString(idx), "/",
                                  ToString(Len(pre_commands))>>),
               Event("command", pre_commands[idx]) >>
    /\ spawned' = Append(spawned, Spawn("pre", pre_commands[idx]))
    /\ output_lines' = <<>>
    /\ pc' = "pre_read"
    /\ UNCHANGED <<config, environ, request, env, response, log_queue, threadVars, idx, result,
                   outputs, dry_run, monitorVars>>

\* execute_command: readline returns a line, which is kept and queued, not yielded
PreCommandLine ==
    /\ pc = "pre_read"
    /\ Len(output_lines) < Len(PreOutput(idx))
    /\ LET line == PreOutput(idx)[Len(output_lines) + 1]
       IN  /\ output_lines' = Append(output_lines, line)
           /\ log_queue' = Append(log_queue, <<"output", rstrip(line)>>)
    /\ UNCHANGED <<config, environ, request, pc, env, stream, response, threadVars, idx, result,
                   outputs, dry_run, monitorVars, spawned>>

\* execute_command: readline returns '' (the child closed its output)
PreCommandEof ==
    /\ pc = "pre_read"
    /\ Len(output_lines) = Len(PreOutput(idx))
    /\ pc' = "pre_wait"
    /\ UNCHANGED <<config, environ, request, env, stream, response, log_queue, threadVars,
                   output_lines, idx, result, outputs, dry_run, monitorVars, spawned>>

\* execute_command: process.wait(timeout=600) returns and the Result is built
PreCommandExit ==
    /\ pc = "pre_wait"
    /\ \E rc \in ExitCodes :
            result' = [returncode |-> Code(rc), stdout |-> join(output_lines)]
    /\ pc' = "pre_drain"
    /\ UNCHANGED <<config, environ, request, env, stream, response, log_queue, threadVars,
                   output_lines, idx, outputs, dry_run, monitorVars, spawned>>

\* execute_command: process.wait(timeout=600) raises TimeoutExpired; the child is
\* killed and the exception reaches the handler of generate()
PreCommandTimeout ==
    /\ pc = "pre_wait"
    /\ StreamError
    /\ UNCHANGED <<config, environ, request, env, response, log_queue, threadVars, output_lines,
                   idx, result, outputs, dry_run, monitorVars, spawned>>

\* the messages of a drained queue, as events
Drained(q) == [i \in 1..Len(q) |-> Event(q[i][1], q[i][2])]

\* PreCommandDrain without the test of the exit code
PreCommandDrainAlways ==
    /\ pc = "pre_drain"
    /\ log_queue' = <<>>
    /\ stream' = stream \o Drained(log_queue)
    /\ pc' = "pre"
    /\ idx' = idx + 1
    /\ UNCHANGED <<config, environ, request, env, response, threadVars, output_lines, result,
                   outputs, dry_run, monitorVars, spawned>>

\* after execute_command returned: the queue is drained, then the exit code is tested
PreCommandDrain ==
    /\ pc = "pre_drain"
    /\ log_queue' = <<>>
    /\ IF result.returncode # Code(0)
       THEN /\ stream' = stream \o Drained(log_queue) \o
                    << Event("error", <<"Pre-command failed with exit code ">>
                                      \o StrCode(result.returncode)),
                       Event("error", result.stdout) >>
            /\ pc' = "done"
            /\ UNCHANGED idx
       ELSE /\ stream' = stream \o Drained(log_queue)
            /\ pc' = "pre"
            /\ idx' = idx + 1
    /\ UNCHANGED <<config, environ, request, env, response, threadVars, output_lines, result,
                   outputs, dry_run, monitorVars, spawned>>

(***************************************************************************)
(* run_command_async: the thread that runs the main command.               *)
(***************************************************************************)
\* the while condition of the monitoring loop
LoopCondition(holder, stable) == ~ holder.done \/ stable < 2

\* the two announcing events, result_holder, cmd_thread.start() and the loop variables
MainStart ==
    /\ pc = "pre"
    /\ idx > Len(pre_commands)
    /\ stream' = stream \o << Event("section", <<"Main Deployment">>),
                              Event("command", command) >>
    /\ result_holder' = [done |-> FALSE, returncode |-> NoCode, stdout |-> <<>>]
    /\ tpc' = "start"
    /\ last_pod_status' = <<>>
    /\ polls_without_change' = 0
    /\ elapsed' = 0
    /\ pc' = IF LoopCondition(result_holder', 0) THEN "mon_drain" ELSE "join"
    /\ UNCHANGED <<config, environ, request, env, response, log_queue, output_lines, idx, result,
                   outputs, dry_run, pod_status, repeated, spawned>>

\* subprocess.Popen(command, ...); Popen(None, shell=True) raises TypeError
ThreadPopen ==
    /\ tpc = "start"
    /\ IF command = None
       THEN tpc' = "except" /\ UNCHANGED spawned
       ELSE tpc' = "reading" /\ spawned' = Append(spawned, Spawn("main", command))
    /\ output_lines' = <<>>
    /\ UNCHANGED <<config, environ, request, pc, env, stream, response, log_queue, result_holder,
                   idx, result, outputs, dry_run, monitorVars>>

\* readline returns a line: it is kept and queued
ThreadLine ==
    /\ tpc = "reading"
    /\ Len(output_lines) < MaxLines
    /\ LET line == MainLine(Len(output_lines) + 1)
       IN  /\ output_lines' = Append(output_lines, line)
           /\ log_queue' = Append(log_queue, <<"output", rstrip(line)>>)
    /\ UNCHANGED <<config, environ, request, pc, env, stream, response, threadVars, idx, result,
                   outputs, dry_run, monitorVars, spawned>>

\* readline returns '' (the child closed its output) and process.wait() returns, which
\* touch nothing the handler reads; then result_holder['returncode'] = process.returncode
ThreadStoreReturncode ==
    /\ tpc = "reading"
    /\ Len(output_lines) = MaxLines
    /\ \E rc \in ExitCodes : result_holder' = [result_holder EXCEPT !.returncode = Code(rc)]
    /\ tpc' = "store_stdout"
    /\ UNCHANGED <<config, environ, request, pc, env, stream, response, log_queue, output_lines,
                   idx, result, outputs, dry_run, monitorVars, spawned>>

\* result_holder['stdout'] = ''.join(output_lines)
ThreadStoreStdout ==
    /\ tpc = "store_stdout"
    /\ result_holder' = [result_holder EXCEPT !.stdout = join(output_lines)]
    /\ tpc' = "store_done"
    /\ UNCHANGED <<config, environ, request, pc, env, stream, response, log_queue, output_lines,
                   idx, result, outputs, dry_run, monitorVars, spawned>>

\* result_holder['done'] = True
ThreadStoreDone ==
    /\ tpc = "store_done"
    /\ result_holder' = [result_holder EXCEPT !.done = TRUE]
    /\ tpc' = "finished"
    /\ UNCHANGED <<config, environ, request, pc, env, stream, response, log_queue, output_lines,
                   idx, result, outputs, dry_run, monitorVars, spawned>>

\* ThreadExcept that sets done before it stores the exit code
ThreadExceptDoneFirst ==
    /\ tpc \in {"except", "except_stdout", "except_done"}
    /\ result_holder' =
            CASE tpc = "except" -> [result_holder EXCEPT !.done = TRUE]
              [] tpc = "except_stdout" -> [result_holder EXCEPT !.returncode = Code(1)]
              [] tpc = "except_done" -> [result_holder EXCEPT !.stdout = <<"exc">>]
    /\ tpc' = CASE tpc = "except" -> "except_stdout"
                [] tpc = "except_stdout" -> "except_done"
                [] tpc = "except_done" -> "except_put"
    /\ UNCHANGED <<config, environ, request, pc, env, stream, response, log_queue, output_lines,
                   idx, result, outputs, dry_run, monitorVars, spawned>>

\* except Exception: the three stores, one after the other
ThreadExcept ==
    /\ tpc \in {"except", "except_stdout", "except_done"}
    /\ result_holder' =
            CASE tpc = "except" -> [result_holder EXCEPT !.returncode = Code(1)]
              [] tpc = "except_stdout" -> [result_holder EXCEPT !.stdout = <<"exc">>]
              [] tpc = "except_done" -> [result_holder EXCEPT !.done = TRUE]
    /\ tpc' = CASE tpc = "except" -> "except_stdout"
                [] tpc = "except_stdout" -> "except_done"
                [] tpc = "except_done" -> "except_put"
    /\ UNCHANGED <<config, environ, request, pc, env, stream, response, log_queue, output_lines,
                   idx, result, outputs, dry_run, monitorVars, spawned>>

\* except Exception: output_queue.put(('error', f'Command error: {str(e)}'))
ThreadExceptPut ==
    /\ tpc = "except_put"
    /\ log_queue' = Append(log_queue, <<"error", <<"Command error: ", "exc">> >>)
    /\ tpc' = "finished"
    /\ UNCHANGED <<config, environ, request, pc, env, stream, response, result_holder,
                   output_lines, idx, result, outputs, dry_run, monitorVars, spawned>>

(***************************************************************************)
(* The monitoring loop of generate().                                      *)
(***************************************************************************)
poll_interval == 5
max_monitor_time == 300
\* timeout=10 of the status poll
PollTimeout == 10
\* `head -20` of the status command
HeadLimit == 20
\* [:15], the pods reported of one poll
PodLimit == 15

PodsOne == <<NL, "a", NL, " ", NL, "R", NL>>
PodsMany ==
    join([i \in 1..HeadLimit |-> IF i = 17 THEN <<" ", NL>> ELSE <<"b", ToString(i), NL>>])

\* the texts the status command prints in the model
PollTexts == {<<>>, PodsOne, PodsMany}

\* the events of one changed status: the header and the first 15 lines, blanks left out
PodGroup(status) ==
    <<Event("pods", <<"Pod Status:">>)>> \o
    LET lines == SelectNonBlank(FirstN(split(status, NL), PodLimit))
    IN  [i \in 1..Len(lines) |-> Event("pod", lines[i])]

\* StatusChanged that holds for the first status only
StatusFirst(status, last) == status # <<>> /\ last = <<>>

\* StatusChanged without the comparison with the last reported status
StatusNonEmpty(status, last) == status # <<>>

\* `if pod_status and pod_status != last_pod_status`
StatusChanged(status, last) == status # <<>> /\ status # last

\* the number of status groups yielded so far
Groups(events) == Cardinality({i \in 1..Len(events) : events[i].type = "pods"})

\* MonitorDrain that takes the newest item of the queue
MonitorDrainNewest ==
    /\ pc = "mon_drain"
    /\ log_queue # <<>>
    /\ stream' = Append(stream, Event(log_queue[Len(log_queue)][1],
                                      log_queue[Len(log_queue)][2]))
    /\ log_queue' = SubSeq(log_queue, 1, Len(log_queue) - 1)
    /\ UNCHANGED <<config, environ, request, pc, env, response, threadVars, output_lines, idx,
                   result, outputs, dry_run, monitorVars, spawned>>

\* while not log_queue.empty(): get_nowait() and yield, one item
MonitorDrain ==
    /\ pc = "mon_drain"
    /\ log_queue # <<>>
    /\ stream' = Append(stream, Event(Head(log_queue)[1], Head(log_queue)[2]))
    /\ log_queue' = Tail(log_queue)
    /\ UNCHANGED <<config, environ, request, pc, env, response, threadVars, output_lines, idx,
                   result, outputs, dry_run, monitorVars, spawned>>

\* log_queue.empty() is true: the drain loop ends
MonitorDrained ==
    /\ pc = "mon_drain"
    /\ log_queue = <<>>
    /\ pc' = "mon_body"
    /\ UNCHANGED <<config, environ, request, env, stream, response, log_queue, threadVars,
                   output_lines, idx, result, outputs, dry_run, monitorVars, spawned>>

\* the event of the soft monitoring deadline
TimeoutInfo ==
    Event("info", <<"Monitoring timeout reached, deployment may still be in progress">>)

\* PollAndSleep with the deadline test a sleep late
PollAndSleepLate(ok, text, took) ==
    LET stripped == strip(text)
        changed == ok /\ StatusChanged(stripped, last_pod_status)
        now == elapsed + took
    IN  /\ changed => Groups(stream) < MaxGroups
        /\ last_pod_status' = IF changed THEN stripped ELSE last_pod_status
        /\ pod_status' = IF ok THEN stripped ELSE pod_status
        /\ IF now > max_monitor_time + poll_interval
           THEN /\ stream' = stream \o (IF changed THEN PodGroup(stripped) ELSE <<>>) \o
                        <<TimeoutInfo>>
                /\ elapsed' = now
                /\ pc' = "join"
                /\ repeated' = FALSE
           ELSE /\ stream' = stream \o (IF changed THEN PodGroup(stripped) ELSE <<>>)
                /\ elapsed' = now + poll_interval
                /\ pc' = IF LoopCondition(result_holder, polls_without_change')
                         THEN "mon_drain" ELSE "join"
                /\ repeated' = (ok /\ stripped = pod_status /\ pc' = "mon_drain")

\* PollAndSleep that reports a failed poll on the stream
PollAndSleepSurfaced(ok, text, took) ==
    LET stripped == strip(text)
        changed == ok /\ StatusChanged(stripped, last_pod_status)
        now == elapsed + took
        shown == IF changed THEN PodGroup(stripped)
                 ELSE IF ok THEN <<>> ELSE <<Event("error", <<"Pod poll error">>)>>
    IN  /\ changed => Groups(stream) < MaxGroups
        /\ last_pod_status' = IF changed THEN stripped ELSE last_pod_status
        /\ pod_status' = IF ok THEN stripped ELSE pod_status
        /\ IF now > max_monitor_time
           THEN /\ stream' = stream \o shown \o <<TimeoutInfo>>
                /\ elapsed' = now
                /\ pc' = "join"
                /\ repeated' = FALSE
           ELSE /\ stream' = stream \o shown
                /\ elapsed' = now + poll_interval
                /\ pc' = IF LoopCondition(result_holder, polls_without_change')
                         THEN "mon_drain" ELSE "join"
                /\ repeated' = (ok /\ stripped = pod_status /\ pc' = "mon_drain")

\* the rest of one iteration without a break on completion: the status poll (which
\* took `took` seconds and printed `text`, or failed), the deadline check, the sleep
PollAndSleep(ok, text, took) ==
    LET stripped == strip(text)
        changed == ok /\ StatusChanged(stripped, last_pod_status)
        now == elapsed + took
    IN  /\ changed => Groups(stream) < MaxGroups
        /\ last_pod_status' = IF changed THEN stripped ELSE last_pod_status
        /\ pod_status' = IF ok THEN stripped ELSE pod_status
        /\ IF now > max_monitor_time
           THEN /\ stream' = stream \o (IF changed THEN PodGroup(stripped) ELSE <<>>) \o
                        <<TimeoutInfo>>
                /\ elapsed' = now
                /\ pc' = "join"
                /\ repeated' = FALSE
           ELSE /\ stream' = stream \o (IF changed THEN PodGroup(stripped) ELSE <<>>)
                /\ elapsed' = now + poll_interval
                /\ pc' = IF LoopCondition(result_holder, polls_without_change')
                         THEN "mon_drain" ELSE "join"
                /\ repeated' = (ok /\ stripped = pod_status /\ pc' = "mon_drain")

\* MonitorBody that breaks at the first iteration that observes completion
MonitorBodyNoSettle ==
    /\ pc = "mon_body"
    /\ UNCHANGED <<config, environ, request, env, response, log_queue, threadVars, output_lines,
                   idx, result, outputs, dry_run, spawned>>
    /\ polls_without_change' =
            IF result_holder.done THEN polls_without_change + 1 ELSE polls_without_change
    /\ IF result_holder.done /\ polls_without_change' >= 1
       THEN /\ pc' = "join"
            /\ repeated' = FALSE
            /\ UNCHANGED <<stream, last_pod_status, elapsed, pod_status>>
       ELSE \/ \E text \in PollTexts : PollAndSleep(TRUE, text, 0)
            \/ \E took \in {0, PollTimeout} : PollAndSleep(FALSE, <<>>, took)

\* one iteration after the drain: the completion check, then the poll and the sleep
MonitorBody ==
    /\ pc = "mon_body"
    /\ UNCHANGED <<config, environ, request, env, response, log_queue, threadVars, output_lines,
                   idx, result, outputs, dry_run, spawned>>
    /\ polls_without_change' =
            IF result_holder.done THEN polls_without_change + 1 ELSE polls_without_change
    /\ IF result_holder.done /\ polls_without_change' >= 2
       THEN /\ pc' = "join"
            /\ repeated' = FALSE
            /\ UNCHANGED <<stream, last_pod_status, elapsed, pod_status>>
       ELSE \/ \E text \in PollTexts : PollAndSleep(TRUE, text, 0)
            \/ \E took \in {0, PollTimeout} : PollAndSleep(FALSE, <<>>, took)

(***************************************************************************)
(* After the loop: the join, the final drain and the final status.         *)
(***************************************************************************)
\* [-20:], the lines of output reported of a failed main command
TailLimit == 20

\* JoinThread of a handler that does not wait for the thread at all
JoinAtOnce ==
    /\ pc = "join"
    /\ pc' = "final_drain"
    /\ UNCHANGED <<config, environ, request, env, stream, response, log_queue, threadVars,
                   output_lines, idx, result, outputs, dry_run, monitorVars, spawned>>

\* cmd_thread.join(timeout=10) returns because the thread has ended
JoinThread ==
    /\ pc = "join"
    /\ tpc = "finished"
    /\ pc' = "final_drain"
    /\ UNCHANGED <<config, environ, request, env, stream, response, log_queue, threadVars,
                   output_lines, idx, result, outputs, dry_run, monitorVars, spawned>>

\* JoinTimeout of a join() without timeout: it returns when the thread has ended
JoinWithoutTimeout ==
    /\ pc = "join"
    /\ tpc = "finished"
    /\ pc' = "final_drain"
    /\ UNCHANGED <<config, environ, request, env, stream, response, log_queue, threadVars,
                   output_lines, idx, result, outputs, dry_run, monitorVars, spawned>>

\* cmd_thread.join(timeout=10) returns after 10 seconds: the thread is still blocked
\* on its child process (in readline or in process.wait)
JoinTimeout ==
    /\ pc = "join"
    /\ tpc = "reading"
    /\ pc' = "final_drain"
    /\ UNCHANGED <<config, environ, request, env, stream, response, log_queue, threadVars,
                   output_lines, idx, result, outputs, dry_run, monitorVars, spawned>>

\* the final drain: get_nowait() and yield, one item
FinalDrain ==
    /\ pc = "final_drain"
    /\ log_queue # <<>>
    /\ stream' = Append(stream, Event(Head(log_queue)[1], Head(log_queue)[2]))
    /\ log_queue' = Tail(log_queue)
    /\ UNCHANGED <<config, environ, request, pc, env, response, threadVars, output_lines, idx,
                   result, outputs, dry_run, monitorVars, spawned>>

\* log_queue.empty() is true: the final drain ends
FinalDrained ==
    /\ pc = "final_drain"
    /\ log_queue = <<>>
    /\ pc' = "report"
    /\ UNCHANGED <<config, environ, request, env, stream, response, log_queue, threadVars,
                   output_lines, idx, result, outputs, dry_run, monitorVars, spawned>>

SuccessEvent == Event("success", <<"Helm install command completed successfully!">>)
CompleteEvent == [type |-> "complete"]
\* the first event of the failure branch
FailedEvent(rc) == Event("error", <<"Deployment failed with exit code ">> \o StrCode(rc))

\* ReportFinalStatus that takes every exit code but None for a success
ReportFinalStatusAnyCode ==
    /\ pc = "report"
    /\ IF result_holder.returncode # NoCode
       THEN /\ stream' = stream \o <<SuccessEvent, Event("section", <<"Final Status">>)>>
            /\ pc' = "logs"
            /\ idx' = 1
       ELSE /\ pc' = "failed"
            /\ UNCHANGED <<stream, idx>>
    /\ UNCHANGED <<config, environ, request, env, response, log_queue, threadVars, output_lines,
                   result, outputs, dry_run, monitorVars, spawned>>

\* `if result_holder['returncode'] == 0`, with the two events of the success branch
ReportFinalStatus ==
    /\ pc = "report"
    /\ IF result_holder.returncode = Code(0)
       THEN /\ stream' = stream \o
                    <<SuccessEvent, Event("section", <<"Final Status">>)>>
            /\ pc' = "logs"
            /\ idx' = 1
       ELSE /\ pc' = "failed"
            /\ UNCHANGED <<stream, idx>>
    /\ UNCHANGED <<config, environ, request, env, response, log_queue, threadVars, output_lines,
                   result, outputs, dry_run, monitorVars, spawned>>

\* FailureLines without the [-20:]
FailureLinesAll(error_output) ==
    IF error_output = <<>> THEN <<>>
    ELSE LET lines == SelectNonBlank(split(error_output, NL))
         IN  [i \in 1..Len(lines) |-> Event("error", lines[i])]

\* the error events of the last lines of the captured output
FailureLines(error_output) ==
    IF error_output = <<>> THEN <<>>
    ELSE LET lines == SelectNonBlank(LastN(split(error_output, NL), TailLimit))
         IN  [i \in 1..Len(lines) |-> Event("error", lines[i])]

\* the else branch: stdout and returncode are read from result_holder (one read
\* after the other, which sees no more than reading both at once) and reported
ReportFailure ==
    /\ pc = "failed"
    /\ stream' = stream \o
            <<FailedEvent(result_holder.returncode)>> \o
            FailureLines(result_holder.stdout)
    /\ pc' = "done"
    /\ UNCHANGED <<config, environ, request, env, response, log_queue, threadVars, output_lines,
                   idx, result, outputs, dry_run, monitorVars, spawned>>

\* the texts a log source prints in the model
LogTexts == {<<NL, "x", NL, " ", NL, "y", NL>>}

\* the log events of one log source
LogEvents(text) ==
    LET lines == SelectNonBlank(split(strip(text), NL))
    IN  [i \in 1..Len(lines) |-> Event("log", lines[i])]

\* LogSource that gives up at the first log source that fails
LogSourceAbortOnFailure ==
    /\ pc = "logs"
    /\ idx <= Len(log_sources)
    /\ LET log_source == log_sources[idx]
           log_cmd == replace(Get(log_source, "command", <<>>), VersionVar, env["VERSION"])
           log_label == Get(log_source, "label", <<"Status">>)
           header == Event("info", <<"--- ">> \o log_label \o <<" ---">>)
       IN  /\ spawned' = Append(spawned, Spawn("log", log_cmd))
           /\ \/ /\ stream' = stream \o
                        <<header,
                          Event("error", <<"Failed to get ">> \o log_label \o <<": ">>)>>
                 /\ pc' = "done"
              \/ /\ \E text \in LogTexts :
                        stream' = stream \o <<header>> \o LogEvents(text)
                 /\ pc' = pc
    /\ idx' = idx + 1
    /\ UNCHANGED <<config, environ, request, env, response, log_queue, threadVars,
                   output_lines, result, outputs, dry_run, monitorVars>>

\* one log source: the header, the command, then its lines or the error event
LogSource ==
    /\ pc = "logs"
    /\ idx <= Len(log_sources)
    /\ LET log_source == log_sources[idx]
           log_cmd == replace(Get(log_source, "command", <<>>), VersionVar, env["VERSION"])
           log_label == Get(log_source, "label", <<"Status">>)
           header == Event("info", <<"--- ">> \o log_label \o <<" ---">>)
       IN  /\ spawned' = Append(spawned, Spawn("log", log_cmd))
           /\ \/ stream' = stream \o
                    <<header, Event("error", <<"Failed to get ">> \o log_label \o <<": ">>)>>
              \/ \E text \in LogTexts :
                    stream' = stream \o <<header>> \o LogEvents(text)
    /\ idx' = idx + 1
    /\ UNCHANGED <<config, environ, request, pc, env, response, log_queue, threadVars,
                   output_lines, result, outputs, dry_run, monitorVars>>

\* after the log sources: the complete event
Complete ==
    /\ pc = "logs"
    /\ idx > Len(log_sources)
    /\ stream' = Append(stream, CompleteEvent)
    /\ pc' = "done"
    /\ UNCHANGED <<config, environ, request, env, response, log_queue, threadVars, output_lines,
                   idx, result, outputs, dry_run, monitorVars, spawned>>

Next ==
    \/ DeployRequest
    \/ StreamRequest
    \/ PreCommandStart
    \/ PreCommandLine
    \/ PreCommandEof
    \/ PreCommandExit
    \/ PreCommandTimeout
    \/ PreCommandDrain
    \/ MainStart
    \/ ThreadPopen
    \/ ThreadLine
    \/ ThreadStoreReturncode
    \/ ThreadStoreStdout
    \/ ThreadStoreDone
    \/ ThreadExcept
    \/ ThreadExceptPut
    \/ MonitorDrain
    \/ MonitorDrained
    \/ MonitorBody
    \/ JoinThread
    \/ JoinTimeout
    \/ FinalDrain
    \/ FinalDrained
    \/ ReportFinalStatus
    \/ ReportFailure
    \/ LogSource
    \/ Complete
    \/ DeployPreCommand
    \/ DeployMainCommand

Spec == Init /\ [][Next]_vars

\* the steps generate() takes by itself: they wait for no child process
HandlerStep ==
    \/ PreCommandStart
    \/ PreCommandDrain
    \/ MainStart
    \/ MonitorDrain
    \/ MonitorDrained
    \/ MonitorBody
    \/ FinalDrain
    \/ FinalDrained
    \/ ReportFinalStatus
    \/ ReportFailure
    \/ LogSource
    \/ Complete

\* the steps the thread takes by itself
ThreadStep ==
    \/ ThreadPopen
    \/ ThreadStoreStdout
    \/ ThreadStoreDone
    \/ ThreadExcept
    \/ ThreadExceptPut

\* the handler and the thread keep running, process.wait(timeout=600) and
\* cmd_thread.join(timeout=10) return when the child exits, the thread ends or the time
\* is up; nothing makes a child process print a line, close its output or exit
SpecFair ==
    /\ Spec
    /\ WF_vars(HandlerStep)
    /\ WF_vars(ThreadStep)
    /\ WF_vars(PreCommandExit \/ PreCommandTimeout)
    /\ WF_vars(JoinThread \/ JoinTimeout)

(***************************************************************************)
(* The final status of runs whose main command printed up to MaxCaptured   *)
(* lines: the runs start where generate() is about to test the exit code,  *)
(* the thread has ended and every queued line has been relayed.            *)
(***************************************************************************)
\* line n of a main command that leaves every k-th line blank (k = 0: none)
CapturedLine(n, k) ==
    IF k > 0 /\ n % k = 0 THEN <<" ", NL>> ELSE <<"l", ToString(n), NL>>

\* the n lines readline returned; the last one ends without a newline unless nl
Captured(n, k, nl) ==
    [i \in 1..n |-> IF i = n /\ ~ nl
                    THEN SubSeq(CapturedLine(i, k), 1, Len(CapturedLine(i, k)) - 1)
                    ELSE CapturedLine(i, k)]

\* generate() at `if result_holder['returncode'] == 0` after run_command_async has
\* stored the exit code and the output and every line was relayed as an output event
InitReport ==
    /\ config = <<Entry(Helm, CfgLogs)>>
    /\ environ = EmptyDict
    /\ request = [apiKey |-> ApiKey]
    /\ env = ChildEnv(environ, deploy_config, request)
    /\ pc = "report"
    /\ tpc = "finished"
    /\ \E n \in 0..MaxCaptured, k \in {0, 2, 3}, nl \in BOOLEAN, rc \in ExitCodes :
            /\ output_lines = Captured(n, k, nl)
            /\ result_holder = [done |-> TRUE, returncode |-> Code(rc),
                                stdout |-> join(output_lines)]
            /\ stream = << Event("start", <<"Starting ">> \o Helm \o <<" deployment...">>),
                           Event("section", <<"Main Deployment">>),
                           Event("command", command) >> \o
                        [i \in 1..n |-> Event("output", rstrip(output_lines[i]))]
    /\ spawned = <<Spawn("main", command)>>
    /\ response = <<>>
    /\ log_queue = <<>>
    /\ idx = 1
    /\ result = [returncode |-> NoCode, stdout |-> <<>>]
    /\ outputs = <<>>
    /\ dry_run = FALSE
    /\ last_pod_status = <<>>
    /\ polls_without_change = 2
    /\ elapsed = 2 * poll_interval
    /\ pod_status = None
    /\ repeated = FALSE

NextReport ==
    \/ ReportFinalStatus
    \/ ReportFailure
    \/ LogSource
    \/ Complete

SpecReport == InitReport /\ [][NextReport]_vars

(***************************************************************************)
(* Dry-run requests to /deploy, for command templates and credentials that *)
(* are strings over a small alphabet.                                      *)
(***************************************************************************)
\* the strings of at most n characters of the set A
Strings(A, n) == UNION {[1..m -> A] : m \in 0..n}

MaskAlphabet == {"a", "*"}
\* a command with a password option and a password assignment
PasswordTemplate ==
    <<"l", " ">> \o PasswordFlag \o <<" ", "a", "*", " ">> \o PasswordWord \o <<"=", "'", "a", "'">>

Templates == Strings(MaskAlphabet, MaxTemplate) \cup {PasswordTemplate}
Keys == Strings(MaskAlphabet, MaxKey) \ {<<>>}

InitDryRun ==
    /\ \E t \in Templates, p \in {<<"a", "*", "a">>, PasswordTemplate} :
            config = <<Entry(Helm, [command |-> t, pre_commands |-> <<p>>])>>
    /\ environ = EmptyDict
    /\ Idle

\* a request with the dryRun flag and a credential
DryRunRequest == \E k \in Keys : deploy([apiKey |-> k, dryRun |-> TRUE])

SpecDryRun == InitDryRun /\ [][DryRunRequest]_vars

(***************************************************************************)
(* Properties.                                                             *)
(***************************************************************************)
\* the child processes started at one call site, in order
Started(site) == SelectSeq(spawned, LAMBDA x : x.site = site)
\* an exit code was recorded and it is not 0
Nonzero(rc) == rc # NoCode /\ rc # Code(0)
Range(seq) == {seq[i] : i \in DOMAIN seq}
\* the types of the events of the stream
Types == [i \in 1..Len(stream) |-> stream[i].type]
\* the positions of the events of one type
Positions(type) == {i \in 1..Len(stream) : stream[i].type = type}
\* the request was handled by /deploy/stream, by /deploy
Streaming == stream # <<>>
NonStreaming == pc # "idle" /\ stream = <<>>
\* the last command /deploy ran was a pre-command
LastWasPreCommand ==
    /\ outputs # <<>>
    /\ outputs[Len(outputs)] # <<>>
    /\ Head(outputs[Len(outputs)]) = "Pre-command output: "

\* C1: in /deploy/stream and in /deploy the pre-commands are started in configured
\* order, the main command only after all of them, and once a pre-command has exited
\* with a nonzero code nothing more is started: the run ends with an error
C1_PreCommandFailureHalts ==
    /\ spawned # <<>> =>
        /\ Len(Started("pre")) <= Len(pre_commands)
        /\ \A i \in 1..Len(Started("pre")) : Started("pre")[i].command = pre_commands[i]
        /\ \A i \in 1..Len(spawned) :
                spawned[i].site = "main" =>
                    /\ i = Len(pre_commands) + 1
                    /\ \A j \in 1..(i - 1) : spawned[j].site = "pre"
    /\ (Streaming /\ Nonzero(result.returncode)) =>
        /\ pc \in {"pre_drain", "done"}
        /\ tpc = "none"
        /\ Len(spawned) = idx
        /\ \A i \in 1..Len(spawned) : spawned[i].site = "pre"
        /\ pc = "done" =>
            /\ Len(stream) >= 2
            /\ stream[Len(stream) - 1] =
                    Event("error", <<"Pre-command failed with exit code ">>
                                   \o StrCode(result.returncode))
            /\ stream[Len(stream)].type = "error"
    /\ (NonStreaming /\ Nonzero(result.returncode) /\ LastWasPreCommand) =>
        /\ pc = "done"
        /\ \A i \in 1..Len(spawned) : spawned[i].site = "pre"
        /\ response # <<>>
        /\ response[1].status = 500
        /\ "error" \in DOMAIN response[1].body

\* a streaming run ended by its first pre-command, with another one configured
C1_Witness ==
    /\ Streaming
    /\ pc = "done"
    /\ Nonzero(result.returncode)
    /\ Len(spawned) < Len(pre_commands)

\* the main command of the streaming run was started (its thread was created)
MainStarted == tpc # "none"
\* the events before position i
Before(i) == {stream[j] : j \in 1..(i - 1)}

\* C2: a streaming run whose pre-commands and main command all exited with code 0
\* ends with the complete event, and a complete event comes only after a success
\* event
C2_SuccessEndsWithComplete ==
    /\ (Streaming /\ pc = "done" /\ result_holder.returncode = Code(0)) =>
            stream[Len(stream)] = CompleteEvent
    /\ \A i \in Positions("complete") : SuccessEvent \in Before(i)

\* C3: when the recorded exit code of the main command is not 0, the stream has no
\* success and no complete event and no log source is run, and the finished stream
\* has the error event with the exit code (None when none was recorded by then)
C3_FailureHasNoComplete ==
    /\ ("success" \in Range(Types) \/ "complete" \in Range(Types) \/ Started("log") # <<>>)
            => result_holder.returncode = Code(0)
    /\ (pc = "failed" \/ (pc = "done" /\ MainStarted /\ result_holder.returncode # Code(0))) =>
        /\ "success" \notin Range(Types)
        /\ "complete" \notin Range(Types)
        /\ Started("log") = <<>>
    /\ (pc = "done" /\ MainStarted /\ result_holder.returncode # Code(0)) =>
            \E rc \in {result_holder.returncode, NoCode} : FailedEvent(rc) \in Range(stream)

\* a streaming run whose main command exited with code 3, reported with that code
C3_Witness ==
    /\ pc = "done"
    /\ result_holder.returncode = Code(3)
    /\ FailedEvent(Code(3)) \in Range(stream)

\* the positions of the error event that reports the exit code of the main command
FailedAt ==
    {i \in 1..Len(stream) :
        /\ stream[i].type = "error"
        /\ StartsWith(stream[i].message, <<"Deployment failed with exit code ">>)}

\* the i-th smallest member of a set of numbers
Nth(S, i) == CHOOSE x \in S : Cardinality({y \in S : y <= x}) = i

\* C4: the events after the error event with the exit code are at most 20 error
\* events; they are the non-blank ones of the last 20 lines of the captured output,
\* in the order of the output
C4_FailureTailBounded ==
    \A p \in FailedAt :
        LET after == SubSeq(stream, p + 1, Len(stream))
            pieces == split(result_holder.stdout, NL)
            first == IF Len(pieces) > 20 THEN Len(pieces) - 19 ELSE 1
            kept == {i \in first..Len(pieces) : strip(pieces[i]) # <<>>}
        IN  /\ Len(after) <= 20
            /\ Len(after) = Cardinality(kept)
            /\ \A j \in 1..Len(after) :
                    /\ after[j].type = "error"
                    /\ strip(after[j].message) # <<>>
                    /\ after[j].message = pieces[Nth(kept, j)]

\* a failed main command that printed more than 20 lines, 20 of them reported
C4_Witness ==
    /\ pc = "done"
    /\ \E p \in FailedAt : Len(stream) - p = 20
    /\ Len(split(result_holder.stdout, NL)) > 20

\* the events a step appends to the stream
Appended == SubSeq(stream', Len(stream) + 1, Len(stream'))

\* the number of pod events that follow position i of a sequence of events
PodsAfter(events, i) ==
    Cardinality({j \in (i + 1)..Len(events) :
                    \A k \in (i + 1)..j : events[k].type = "pod"})

\* C5: a poll yields at most one pods/pod group, and one only for a non-empty text
\* that differs from the last reported text, which it then becomes; a poll that
\* returns the text of the poll before it yields no group; a group is the pods header
\* followed by its pod events, at most 15
C5_StatusChangeSuppression ==
    [][ LET added == Groups(Appended) IN
        /\ added <= 1
        /\ (pc = "mon_body" /\ pod_status' = pod_status) => added = 0
        /\ repeated' => added = 0
        /\ added = 1 =>
            /\ pod_status' # <<>>
            /\ pod_status' # last_pod_status
            /\ last_pod_status' = pod_status'
            /\ Appended[1].type = "pods"
            /\ PodsAfter(Appended, 1) <= 15
        /\ \A i \in 1..Len(Appended) :
                Appended[i].type = "pod" => (i > 1 /\ Appended[i - 1].type \in {"pods", "pod"})
      ]_vars

\* two polls in a row returned the same text, reported once as a group of 15 pods
C5_Witness ==
    /\ repeated
    /\ pod_status = strip(PodsMany)
    /\ Groups(stream) = 1
    /\ \E i \in Positions("pods") : PodsAfter(stream, i) = 15

\* the request carries no credential
NoCredential == request = NullBody \/ ~ Truthy(Get(request, "apiKey", None))

\* C6: a request without a credential, or for which no deployment configuration
\* resolves, ends with one error event or one HTTP 400/500 response, and no process
\* is spawned and no thread created for it
C6_RejectedBeforeSpawn ==
    (pc # "idle" /\ (NoCredential \/ ~ Resolves(config, environ))) =>
        /\ pc = "done"
        /\ env = EmptyDict
        /\ spawned = <<>>
        /\ tpc = "none"
        /\ pod_status = None
        /\ elapsed = 0
        /\ \/ response = <<>> /\ Len(stream) = 1 /\ stream[1].type = "error"
           \/ stream = <<>> /\ Len(response) = 1 /\ response[1].status \in {400, 500}

\* a streaming request without apiKey, answered with the one error event
C6_Witness ==
    /\ pc = "done"
    /\ request = EmptyDict
    /\ stream = <<Event("error", <<"API key is required">>)>>
    /\ spawned = <<>>

\* C7: the commands echoed by a dry-run request do not contain the credential
C7_DryRunMasksCredential ==
    (pc = "done" /\ response # <<>> /\ response[1].status = 200 /\ dry_run) =>
        LET would_execute == response[1].body.would_execute
        IN  /\ ~ Contains(would_execute.main_command, request.apiKey)
            /\ \A i \in DOMAIN would_execute.pre_commands :
                    ~ Contains(would_execute.pre_commands[i], request.apiKey)

\* the request asks for a dry run, by its flag or by DRY_RUN of the server
DryRunRequested ==
    /\ request # NullBody
    /\ \/ Get(request, "dryRun", FALSE)
       \/ Get(environ, "DRY_RUN", <<>>) \in {<<"t", "r", "u", "e">>, <<"T", "r", "u", "e">>}

\* C10: a /deploy request in dry-run mode with a credential and a configuration that
\* resolves and has a command is answered 200 with dry_run and would_execute, and
\* starts no command
C10_DryRunExecutesNothing ==
    (NonStreaming /\ DryRunRequested /\ ~ NoCredential /\ Resolves(config, environ)) =>
        /\ pc = "done"
        /\ spawned = <<>>
        /\ tpc = "none"
        /\ command # None =>
            /\ response[1].status = 200
            /\ response[1].body.dry_run
            /\ "would_execute" \in DOMAIN response[1].body

\* a dry run asked for by DRY_RUN=True of the server, answered with would_execute
C10_Witness ==
    /\ pc = "done"
    /\ "DRY_RUN" \in DOMAIN environ
    /\ "dryRun" \notin DOMAIN request
    /\ response # <<>>
    /\ response[1].status = 200
    /\ response[1].body.would_execute.main_command = CfgBare.command
    /\ spawned = <<>>

\* the monitoring loop is running, at the top of an iteration
InLoop == pc \in {"mon_drain", "mon_body"}
\* the monitoring loop has been left
LoopExited == MainStarted /\ pc \in {"join", "final_drain", "report", "failed", "logs", "done"}

\* C8 as stated: the monitoring loop has exited by max_monitor_time + poll_interval
C8_ExitsWithinDeadlinePlusSleep ==
    LoopExited => elapsed <= 300 + 5

\* C8, amended: no iteration of the monitoring loop starts later than 300 + 5 seconds
\* after the start of the loop, and the loop has exited by 300 + 5 + 10 seconds, the
\* last poll taking up to its timeout of 10 seconds
C8_ExitsWithinDeadlinePlusSleepAndPoll ==
    /\ InLoop => elapsed <= 300 + 5
    /\ LoopExited => elapsed <= 300 + 5 + 10

\* the loop left at 315 seconds, by the deadline, the main command still running
C8_Witness ==
    /\ pc = "join"
    /\ elapsed = 315
    /\ ~ result_holder.done
    /\ stream[Len(stream)] = TimeoutInfo

\* C9: a run that has reported the monitoring timeout reports no deployment failure
\* unless its main command exited with a nonzero code
C9_SoftDeadlineIsNoFailure ==
    (pc = "done" /\ TimeoutInfo \in Range(stream) /\ ~ Nonzero(result_holder.returncode)) =>
        FailedAt = {}

\* a step of the monitoring loop whose poll succeeded with a text that differs from
\* the text of the successful poll before it
PolledOtherText == pc = "mon_body" /\ pod_status # None /\ pod_status' # pod_status

\* C11 as stated: a poll that returns a text that differs from the text of the
\* successful poll before it yields a pods/pod group
C11_EveryTransitionSurfaced ==
    [][PolledOtherText => Groups(Appended) = 1]_vars

\* C11, amended: a poll that returns a non-empty text that differs from the last
\* reported text yields the pods/pod group of that text, also after empty results and
\* failed polls; so two differing non-empty results in a row yield two groups
C11_NonEmptyChangeSurfaced ==
    [][ /\ (pc = "mon_body" /\ pod_status' # pod_status /\ pod_status' # <<>>
                /\ pod_status' # last_pod_status)
            => (Groups(Appended) = 1 /\ Appended[1].type = "pods"
                /\ SubSeq(Appended, 1, Len(PodGroup(pod_status'))) = PodGroup(pod_status'))
        /\ (PolledOtherText /\ pod_status # <<>> /\ pod_status' # <<>>)
            => Groups(Appended) = 1
      ]_vars

\* two differing results, an empty result between them, reported as two groups
C11_Witness ==
    /\ Groups(stream) = 2
    /\ last_pod_status = strip(PodsOne)
    /\ pod_status = <<>>
    /\ \E i \in Positions("pods") : PodsAfter(stream, i) = 15

\* C12: the stable-iterations counter is incremented exactly on the iterations that
\* observe completion; the iteration of the first observation still polls and sleeps
\* (unless the deadline ends the loop), the next one brings the counter to 2 and exits
\* without another poll; the loop is never left with the counter below 2 except by the
\* deadline
C12_SettleWindow ==
    /\ [](/\ polls_without_change \in 0..2
          /\ polls_without_change >= 1 => result_holder.done
          /\ LoopExited => (polls_without_change = 2 \/ TimeoutInfo \in Range(stream)))
    /\ [][ (pc = "mon_body" /\ pc' # pc) =>
            /\ polls_without_change' =
                    IF result_holder.done THEN polls_without_change + 1
                    ELSE polls_without_change
            /\ polls_without_change' < 2 =>
                    \/ pc' = "mon_drain" /\ elapsed' >= elapsed + poll_interval
                    \/ pc' = "join" /\ Appended # <<>>
                            /\ Appended[Len(Appended)] = TimeoutInfo
            /\ polls_without_change' = 2 =>
                    /\ pc' = "join"
                    /\ UNCHANGED <<stream, elapsed, pod_status, last_pod_status>>
         ]_vars

\* the loop left on completion, two iterations after the main command finished
C12_Witness ==
    /\ pc = "join"
    /\ polls_without_change = 2
    /\ result_holder.done
    /\ TimeoutInfo \notin Range(stream)
    /\ elapsed >= poll_interval

\* the items the running command's reader has put into the queue, in the order of the
\* puts: one per line read, and the error item of the thread's except branch
Enqueued ==
    LET lines == IF tpc = "start" THEN <<>> ELSE output_lines
    IN  [i \in 1..Len(lines) |-> <<"output", rstrip(lines[i])>>] \o
        (IF tpc = "finished" /\ command = None
         THEN << <<"error", <<"Command error: ", "exc">> >> >> ELSE <<>>)

\* the events of the stream that came out of the queue since the last command event
Relayed ==
    LET last == CHOOSE i \in Positions("command") : \A j \in Positions("command") : j <= i
    IN  SelectSeq(SubSeq(stream, last + 1, Len(stream)),
                  LAMBDA e : e.type = "output" \/
                             (e.type = "error" /\ StartsWith(e.message, <<"Command error: ">>)))

\* C13: the events relayed from the queue, followed by the items still in the queue,
\* are the items put into it, in the order of the puts, each once
C13_QueueOrderKept ==
    (Streaming /\ Positions("command") # {}) =>
        Relayed \o Drained(log_queue) = Drained(Enqueued)

\* the main command has printed two lines: the first is relayed, the second queued
C13_Witness ==
    /\ tpc = "reading"
    /\ Len(output_lines) = 2
    /\ Len(log_queue) = 1
    /\ Positions("command") # {}
    /\ Len(Relayed) = 1

\* C16: a pre-command of the streaming deployment that is running has exited or has
\* been terminated some time later: the handler does not stay in execute_command
C16_PreCommandEnds ==
    [](pc \in {"pre_read", "pre_wait"} => <>(pc \notin {"pre_read", "pre_wait"}))

\* the queue has been flushed after the join: the final drain found it empty
Flushed == pc \in {"report", "failed", "logs", "done"}

\* the steps of generate() after the monitoring loop
PostLoopStep ==
    \/ JoinThread
    \/ JoinTimeout
    \/ FinalDrain
    \/ FinalDrained
    \/ ReportFinalStatus
    \/ ReportFailure
    \/ LogSource
    \/ Complete

\* the most steps the thread can still take, the lines of its child included
ThreadLeft ==
    CASE tpc = "start" -> 4 + MaxLines
      [] tpc = "reading" -> 3 + (MaxLines - Len(output_lines))
      [] tpc = "store_stdout" -> 2
      [] tpc = "store_done" -> 1
      [] tpc = "except" -> 4
      [] tpc = "except_stdout" -> 3
      [] tpc = "except_done" -> 2
      [] tpc = "except_put" -> 1
      [] OTHER -> 0

\* the most items the thread can still put into the queue
CanPut ==
    CASE tpc = "start" -> MaxLines
      [] tpc = "reading" -> MaxLines - Len(output_lines)
      [] tpc \in {"except", "except_stdout", "except_done", "except_put"} -> 1
      [] OTHER -> 0

\* what is left of generate() after the monitoring loop: the phase, and within the
\* phase the thread steps before the join, the items of the final drain, the log
\* sources still to run
Rank ==
    CASE pc = "join" -> 400 + ThreadLeft
      [] pc = "final_drain" -> 300 + Len(log_queue) + CanPut
      [] pc = "report" -> 200
      [] pc = "logs" -> 100 + (Len(log_sources) + 1 - idx)
      [] pc = "failed" -> 100
      [] OTHER -> 0

\* C15: once the monitoring loop is left the stream ends, whether or not the thread
\* ends. The handler is never blocked: a step of its own or one of the two returns of
\* the join is possible, or the thread is at a step of its own that brings the join
\* nearer. Every such step brings the end of the stream nearer and no step of the
\* thread takes it further away. The final drain ends on an empty queue, and the
\* stream ends with the complete event or with the error event of the failure.
C15_StreamEndsAfterLoop ==
    /\ []((LoopExited /\ pc # "done") =>
            \/ ENABLED PostLoopStep
            \/ pc = "join" /\ tpc # "reading" /\ ENABLED ThreadStep)
    /\ [][(LoopExited /\ pc # "done") =>
            /\ Rank' <= Rank
            /\ (pc' # pc \/ stream' # stream \/ pc = "join") => Rank' < Rank]_vars
    /\ [][(pc = "final_drain" /\ pc' = "report") => log_queue = <<>>]_vars
    /\ []((LoopExited /\ pc = "done") =>
            (stream[Len(stream)] = CompleteEvent \/ FailedAt # {}))

\* the stream has ended with the failure event while the thread is still reading the
\* output of the main command
C15_Witness ==
    /\ pc = "done"
    /\ tpc = "reading"
    /\ FailedAt # {}
    /\ TimeoutInfo \in Range(stream)

\* a command run in streaming mode is running: a pre-command inside execute_command,
\* or the main command while the handler has not yet done its final drain
CommandRunning ==
    \/ pc \in {"pre_read", "pre_wait"}
    \/ tpc = "reading" /\ pc \in {"mon_drain", "mon_body", "join", "final_drain"}

\* C14: a line that a running command has printed, and that waits in the queue, is
\* forwarded to the stream whether or not the command ever exits
C14_LinesForwardedWhileRunning ==
    []((CommandRunning /\ log_queue # <<>>) =>
            <>(log_queue = <<>> \/ Len(Relayed) > 0))

\* an iteration of the monitoring loop whose status poll failed after `took` seconds
\* (an exception at once, or the timeout of the poll)
FailedPoll(took) ==
    /\ pc = "mon_body"
    /\ polls_without_change' =
            IF result_holder.done THEN polls_without_change + 1 ELSE polls_without_change
    /\ ~(result_holder.done /\ polls_without_change' >= 2)
    /\ PollAndSleep(FALSE, <<>>, took)

\* C17: a status poll that fails puts no event on the stream and leaves the last
\* reported status text as it is; the iteration goes on with the deadline check (the
\* only event it can emit is the info event of the deadline, and then the loop ends)
\* and with the sleep and the loop condition of an iteration without a change
C17_FailedPollNotFatal ==
    [][\A took \in {0, PollTimeout} :
            FailedPoll(took) =>
                /\ last_pod_status' = last_pod_status
                /\ pod_status' = pod_status
                /\ \A i \in 1..Len(Appended) : Appended[i].type # "error"
                /\ IF elapsed + took > max_monitor_time
                   THEN /\ Appended = <<TimeoutInfo>>
                        /\ pc' = "join"
                   ELSE /\ Appended = <<>>
                        /\ elapsed' = elapsed + took + poll_interval
                        /\ pc' = IF LoopCondition(result_holder, polls_without_change')
                                 THEN "mon_drain" ELSE "join"]_vars

\* the loop goes on after polls that all failed: half a minute has passed, no poll has
\* printed a text, and the stream holds no pod status and no error
C17_Witness ==
    /\ pc = "mon_drain"
    /\ elapsed = 30
    /\ pod_status = None
    /\ last_pod_status = <<>>
    /\ Positions("pods") = {}
    /\ Positions("error") = {}

\* the section event that opens the success branch
FinalSection == Event("section", <<"Final Status">>)
\* the events of the stream after the section event of the success branch
FinalReport ==
    LET at == CHOOSE i \in 1..Len(stream) : stream[i] = FinalSection
    IN  SubSeq(stream, at + 1, Len(stream))
\* the header event and the command of the k-th configured log source
HeaderOf(k) ==
    Event("info", <<"--- ">> \o Get(log_sources[k], "label", <<"Status">>) \o <<" ---">>)
LogCommand(k) ==
    replace(Get(log_sources[k], "command", <<>>), VersionVar, env["VERSION"])
\* the error event that names the k-th configured log source
LogError(k) ==
    Event("error", <<"Failed to get ">> \o Get(log_sources[k], "label", <<"Status">>)
                        \o <<": ">>)

\* C18: on the success path the log sources are run in the configured order, one
\* command each; the report holds one header per source in that order, each followed
\* by the log lines of the source or by the one error event that names it; when the
\* stream has ended every configured source was processed, whichever of them
\* failed, and the complete event is the last event
C18_EveryLogSourceProcessed ==
    (FinalSection \in Range(stream)) =>
        LET report == FinalReport
            headers == {i \in 1..Len(report) : report[i].type = "info"}
            n == Cardinality(headers)
            \* the position of the k-th header, and the end of the report
            at(k) == IF k > n THEN Len(report) + 1
                     ELSE CHOOSE i \in headers :
                            Cardinality({j \in headers : j < i}) = k - 1
            body(k) == SubSeq(report, at(k) + 1, at(k + 1) - 1)
            ended == Len(report) > 0 /\ report[Len(report)] = CompleteEvent
            lines(k) == IF k = n /\ ended
                        THEN SubSeq(body(k), 1, Len(body(k)) - 1) ELSE body(k)
        IN  /\ pc \in {"logs", "done"}
            /\ n = idx - 1
            /\ n <= Len(log_sources)
            /\ Len(Started("log")) = n
            /\ \A k \in 1..n :
                    /\ Started("log")[k].command = LogCommand(k)
                    /\ report[at(k)] = HeaderOf(k)
                    /\ \/ \A j \in 1..Len(lines(k)) : lines(k)[j].type = "log"
                       \/ lines(k) = <<LogError(k)>>
            /\ n = 0 => report \in {<<>>, <<CompleteEvent>>}
            /\ n > 0 => at(1) = 1
            /\ \A i \in 1..Len(report) : report[i] = CompleteEvent => i = Len(report)
            /\ ended <=> pc = "done"
            /\ pc = "done" => n = Len(log_sources)

\* the stream has ended with the complete event after the first of two log sources
\* failed and the second one, which has no label, printed its lines
C18_Witness ==
    /\ pc = "done"
    /\ FinalSection \in Range(stream)
    /\ Len(log_sources) = 2
    /\ stream[Len(stream)] = CompleteEvent
    /\ \E i \in 1..(Len(stream) - 3) :
            /\ stream[i] = LogError(1)
            /\ stream[i + 1] = HeaderOf(2)
            /\ stream[i + 1].message = <<"--- ", "Status", " ---">>
            /\ stream[i + 2].type = "log"

\* a step of the thread that runs run_command_async: the handler stands still
ThreadMoved == tpc # "none" /\ tpc' # tpc /\ pc' = pc /\ stream' = stream
\* the handler creates the cell before it starts the thread
CellCreated ==
    /\ tpc = "none"
    /\ tpc' = "start"
    /\ result_holder' = [done |-> FALSE, returncode |-> NoCode, stdout |-> <<>>]

\* C19: whenever done is set in result_holder the exit code is set; once the thread
\* exists nothing but a step of the thread changes the cell; done does not go back to
\* false, and once done is set the cell does not change any more, so whoever has seen
\* done reads the same definite exit code from then on
C19_DoneImpliesExitCode ==
    /\ [](result_holder.done => result_holder.returncode # NoCode)
    /\ [][result_holder' # result_holder => (ThreadMoved \/ CellCreated)]_vars
    /\ [][result_holder.done =>
            /\ result_holder'.done
            /\ result_holder'.returncode = result_holder.returncode]_vars

\* the handler is about to test the exit code of a thread that ended in its exception
\* branch: done is set and the exit code is 1
C19_Witness ==
    /\ pc = "report"
    /\ result_holder.done
    /\ result_holder.returncode = Code(1)
    /\ result_holder.stdout = <<"exc">>

\* C20: the exit code named by the failure event is never 0, whatever the thread
\* that outlived the join does between the test of the exit code and the event
C20_ReportedCodeNeverZero ==
    FailedEvent(Code(0)) \notin Range(stream)

\* the monitoring loop was left by the break on completion (done seen on two
\* iterations), not by the break of the deadline
CompletionExit ==
    /\ LoopExited
    /\ result_holder.done
    /\ polls_without_change >= 2
    /\ TimeoutInfo \notin Range(stream)

\* the positions of the events that report the final status of the main command
FinalStatusAt == {i \in 1..Len(stream) : stream[i] = SuccessEvent} \cup FailedAt

\* the events that came out of the queue between the last command event and
\* position n of the stream
RelayedBefore(n) ==
    LET last == CHOOSE i \in Positions("command") : \A j \in Positions("command") : j <= i
    IN  SelectSeq(SubSeq(stream, last + 1, n - 1),
                  LAMBDA e : e.type = "output" \/
                             (e.type = "error" /\ StartsWith(e.message, <<"Command error: ">>)))

====
